---- MODULE Spec2Model ----
(***************************************************************************)
(* Model of src/utils/dataProcessor.ts: processRawData, filterRows,        *)
(* generateReport, exportReportToExcel and exportClientSearchToExcel,      *)
(* applied to bounded sequences of records and of ProcessedRow; of the     *)
(* upload cycle of the application (App, FileUpload, parseExcel); and of   *)
(* the sorting of PivotTable.                                              *)
(*                                                                         *)
(* Strings are TLA+ strings; the string operations of the source           *)
(* (includes, toLowerCase, trim, the default Array.prototype.sort order,   *)
(* localeCompare) are computed character by character.  The numbers of     *)
(* generateReport are exact: a net amount x / 1.18 equals 50x / 59 and is  *)
(* carried as its numerator 50x, in fifty-ninths; rounding of IEEE doubles *)
(* is not modelled, and the rows given to generateReport hold no NaN.  The *)
(* numbers processRawData returns are records that tell whether the value  *)
(* is NaN.  A JavaScript object used as a dictionary is a function whose   *)
(* domain is the set of its own keys; the keys of the model are not names  *)
(* of properties inherited from Object.prototype.  A Map is the sequence   *)
(* of its entries in insertion order.                                      *)
(***************************************************************************)
EXTENDS Integers, Sequences, FiniteSets, TLC

VARIABLES
  rows,        \* the ProcessedRow[] given to generateReport
  filtered,    \* what the last call of filterRows on rows returned
  type,        \* the ReportType of the last call of generateReport
  report,      \* the ReportResult of the last call of generateReport
  returned,    \* the calls of generateReport made so far: argument, kind, result
  refiltered,  \* what filterRows returned when applied to its own result
  raw,         \* the records given to processRawData
  processed,   \* what processRawData returned
  exported,    \* the last call of exportReportToExcel: its arguments and the array
               \* of arrays it built the sheet from
  called,      \* the names of the functions that have returned
  clientExported,  \* the last call of exportClientSearchToExcel: its argument
                   \* and the sheet it built
  rawData,     \* App: the rows of the uploaded file, or null
  loading,     \* App: an upload is being processed
  error,       \* App: the message shown under the drop zone, or null
  activeTab,   \* App: the selected tab
  pending,     \* the calls of parseExcel that have not settled: their files,
               \* in the order of the calls
  event,       \* the last handler of App or FileUpload that ran, with its file
  shown,       \* the error states shown after the failed uploads, by cause
  sortConfig,  \* PivotTable: the sort key and direction, or null
  displayed    \* PivotTable: what the last render showed: the rows, the
               \* totals of the columns and the grand total

\* the state of the components
uiVars == <<clientExported, rawData, loading, error, activeTab, pending, event, shown,
            sortConfig, displayed>>

vars == <<called, rows, filtered, type, report, returned, refiltered, raw, processed, exported,
          clientExported, rawData, loading, error, activeTab, pending, event, shown,
          sortConfig, displayed>>

\* ------------------------------------------------------------ bounds
MaxRows == 3

\* the number of calls whose history is kept
MaxCalls == 3

\* the number of calls of parseExcel that may be unsettled at a time
MaxPending == 2

\* ------------------------------------------------------------ constants
EXCLUDED_STATUS == "Cerrado"

ALLOWED_GROUPS == <<"MAYORISTAS B", "MAYORISTAS C", "MAYORISTAS D", "MAYORISTAS E">>

ORDER_COUNT == "ORDER_COUNT"

NET_AMOUNT == "NET_AMOUNT"

PRODUCT_LIST == "PRODUCT_LIST"

ReportTypes == {ORDER_COUNT, NET_AMOUNT, PRODUCT_LIST}

CLIENT_SEARCH == "CLIENT_SEARCH"

\* the values of the enum ReportType, one for every tab
Tabs == ReportTypes \cup {CLIENT_SEARCH}

\* "no value yet": the variable has not been assigned by a call
None == "none"

\* null, and a value that is not null, in a state that holds either
Null == [null |-> TRUE]

Some(v) == [null |-> FALSE, value |-> v]

\* ------------------------------------------------------------ strings
Upper == "ABCDEFGHIJKLMNOPQRSTUVWXYZ"

Lower == "abcdefghijklmnopqrstuvwxyz"

Digits == "0123456789"

\* the characters of the model's alphabet, as one-character strings
CharsOf(s) == {SubSeq(s, i, i) : i \in 1..Len(s)}

Chars == CharsOf(Upper) \cup CharsOf(Lower) \cup CharsOf(Digits) \cup {"_", " "}

\* position of the one-character string c in s, 0 when absent
IndexOf(c, s) ==
  IF \E i \in 1..Len(s) : SubSeq(s, i, i) = c
  THEN CHOOSE i \in 1..Len(s) : SubSeq(s, i, i) = c
  ELSE 0

\* String.prototype.includes
includes(s, sub) ==
  \E i \in 0..(Len(s) - Len(sub)) : SubSeq(s, i + 1, i + Len(sub)) = sub

\* UTF-16 code unit of each character of the alphabet
CodeUnit ==
  [c \in Chars |->
     IF IndexOf(c, Upper) > 0 THEN 64 + IndexOf(c, Upper)
     ELSE IF IndexOf(c, Lower) > 0 THEN 96 + IndexOf(c, Lower)
     ELSE IF IndexOf(c, Digits) > 0 THEN 47 + IndexOf(c, Digits)
     ELSE IF c = "_" THEN 95
     ELSE 32]

\* lexicographic comparison of two sequences of numbers, a proper prefix
\* first; -1, 0 or 1
RECURSIVE CompareSeq(_, _)
CompareSeq(u, v) ==
  IF u = <<>> THEN (IF v = <<>> THEN 0 ELSE -1)
  ELSE IF v = <<>> THEN 1
  ELSE IF Head(u) < Head(v) THEN -1
  ELSE IF Head(u) > Head(v) THEN 1
  ELSE CompareSeq(Tail(u), Tail(v))

CodeUnits(s) == [i \in 1..Len(s) |-> CodeUnit[SubSeq(s, i, i)]]

\* the comparison Array.prototype.sort uses without a comparator: by UTF-16
\* code units
CompareCodeUnits(s, t) == CompareSeq(CodeUnits(s), CodeUnits(t))

\* collation weights of String.prototype.localeCompare (Unicode collation,
\* root order): the primary weight ignores case (space < punctuation <
\* digits < letters), the tertiary weight puts lower case before upper case
PrimaryWeight ==
  [c \in Chars |->
     IF IndexOf(c, Upper) > 0 THEN 20 + IndexOf(c, Upper)
     ELSE IF IndexOf(c, Lower) > 0 THEN 20 + IndexOf(c, Lower)
     ELSE IF IndexOf(c, Digits) > 0 THEN 9 + IndexOf(c, Digits)
     ELSE IF c = "_" THEN 2
     ELSE 1]

TertiaryWeight == [c \in Chars |-> IF IndexOf(c, Upper) > 0 THEN 1 ELSE 0]

PrimaryWeights(s) == [i \in 1..Len(s) |-> PrimaryWeight[SubSeq(s, i, i)]]

TertiaryWeights(s) == [i \in 1..Len(s) |-> TertiaryWeight[SubSeq(s, i, i)]]

\* a.localeCompare(b): all primary weights first, then the tertiary ones
localeCompare(a, b) ==
  IF CompareSeq(PrimaryWeights(a), PrimaryWeights(b)) # 0
  THEN CompareSeq(PrimaryWeights(a), PrimaryWeights(b))
  ELSE CompareSeq(TertiaryWeights(a), TertiaryWeights(b))

\* ------------------------------------------------------------ sequences
\* Array.prototype.includes on a sequence
arrayIncludes(arr, x) == \E i \in 1..Len(arr) : arr[i] = x

\* Array.from(new Set(arr)): the distinct elements in order of first occurrence
RECURSIVE distinct(_)
distinct(arr) ==
  IF arr = <<>> THEN <<>>
  ELSE LET init == distinct(SubSeq(arr, 1, Len(arr) - 1))
           last == arr[Len(arr)]
       IN  IF arrayIncludes(init, last) THEN init ELSE Append(init, last)

\* ------------------------------------------------------------ objects
\* obj[key] || 0 on an object holding numbers
valueOr0(obj, key) == IF key \in DOMAIN obj THEN obj[key] ELSE 0

\* obj[key] = v
put(obj, key, v) ==
  [k \in DOMAIN obj \cup {key} |-> IF k = key THEN v ELSE obj[k]]

\* the object literal {}
EmptyObject == [k \in {} |-> 0]

\* ------------------------------------------------------------ filterRows
\* KeepRow with the status compared for equality instead of searched
KeepRow_ExactStatus(row) ==
  /\ row.status # EXCLUDED_STATUS
  /\ arrayIncludes(ALLOWED_GROUPS, row.groupName)

\* the callback of rows.filter
KeepRow(row) ==
  /\ ~ includes(row.status, EXCLUDED_STATUS)
  /\ arrayIncludes(ALLOWED_GROUPS, row.groupName)

\* filterRows putting every kept row in front of the ones kept before
RECURSIVE filterRows_Reversed(_)
filterRows_Reversed(rs) ==
  IF rs = <<>> THEN <<>>
  ELSE filterRows_Reversed(Tail(rs)) \o (IF KeepRow(Head(rs)) THEN <<Head(rs)>> ELSE <<>>)

\* filterRows leaving out the first of the rows it would keep
filterRows_SkipFirst(rs) ==
  LET kept == SelectSeq(rs, KeepRow)
  IN  IF kept = <<>> THEN <<>> ELSE Tail(kept)

RECURSIVE filterRows(_)
filterRows(rs) ==
  IF rs = <<>> THEN <<>>
  ELSE (IF KeepRow(Head(rs)) THEN <<Head(rs)>> ELSE <<>>) \o filterRows(Tail(rs))

\* ------------------------------------------------------------ generateReport
\* one step of sorting strings by code units: x goes behind every element
\* that is not greater than it
RECURSIVE insertByCodeUnits(_, _)
insertByCodeUnits(sorted, x) ==
  IF sorted = <<>> THEN <<x>>
  ELSE IF CompareCodeUnits(sorted[Len(sorted)], x) <= 0 THEN Append(sorted, x)
  ELSE Append(insertByCodeUnits(SubSeq(sorted, 1, Len(sorted) - 1), x),
              sorted[Len(sorted)])

\* arr.sort() on an array of strings: ascending by UTF-16 code units
RECURSIVE sortStrings(_)
sortStrings(arr) ==
  IF arr = <<>> THEN <<>>
  ELSE insertByCodeUnits(sortStrings(SubSeq(arr, 1, Len(arr) - 1)), arr[Len(arr)])

\* salesReps without the final sort()
salesReps_Unsorted(filteredRows) ==
  distinct([i \in 1..Len(filteredRows) |-> filteredRows[i].salesRep])

\* 1. the columns: Array.from(new Set(filteredRows.map(r => r.salesRep))).sort()
salesReps(filteredRows) ==
  sortStrings(distinct([i \in 1..Len(filteredRows) |-> filteredRows[i].salesRep]))

\* netVal without the division: the gross amount, in fifty-ninths
netVal_Gross(row) == 59 * row.totalAmount

\* row.totalAmount / 1.18, in fifty-ninths (x / 1.18 = 50 x / 59)
netVal(row) == 50 * row.totalAmount

\* rowKeyOf keying a product by its itemId and its description
rowKeyOf_WithDesc(row, t) ==
  IF t = PRODUCT_LIST THEN row.itemId \o "/" \o row.itemDesc ELSE row.district

\* rowKey: row.itemId for PRODUCT_LIST, row.district otherwise
rowKeyOf(row, t) == IF t = PRODUCT_LIST THEN row.itemId ELSE row.district

rowLabelOf(row, t) == IF t = PRODUCT_LIST THEN row.itemDesc ELSE row.district

\* Map.has / the position of the entry of a key in a Map, 0 when absent
mapIndex(m, key) ==
  IF \E i \in 1..Len(m) : m[i].rowKey = key
  THEN CHOOSE i \in 1..Len(m) : m[i].rowKey = key
  ELSE 0

\* addToEntry with the cell assigned instead of accumulated
addToEntry_Overwrite(entry, rep, x) ==
  [entry EXCEPT !.values = put(entry.values, rep, x),
                !.total = entry.total + x]

\* addToEntry counting the line instead of adding its amount
addToEntry_CountLines(entry, rep, x) ==
  [entry EXCEPT !.values = put(entry.values, rep, valueOr0(entry.values, rep) + 1),
                !.total = entry.total + 1]

\* entry.values[rep] = (entry.values[rep] || 0) + x;  entry.total += x
addToEntry(entry, rep, x) ==
  [entry EXCEPT !.values = put(entry.values, rep, valueOr0(entry.values, rep) + x),
                !.total = entry.total + x]

\* netDocProcessed without the memory of the documents seen
netDocProcessed_Never(processedNetDocs, row) == FALSE

\* processedNetDocs.has(row.docId)
netDocProcessed(processedNetDocs, row) == row.docId \in processedNetDocs

\* the body of filteredRows.forEach(row => ...) of step 2, on the pair of
\* rowMap and processedNetDocs
aggregateRow(acc, row, t) ==
  LET rowKey == rowKeyOf(row, t)
      rowLabel == rowLabelOf(row, t)
      m == IF mapIndex(acc.rowMap, rowKey) = 0
           THEN Append(acc.rowMap, [rowKey |-> rowKey, rowLabel |-> rowLabel,
                                    total |-> 0, values |-> EmptyObject])
           ELSE acc.rowMap
      i == mapIndex(m, rowKey)
  IN  IF t = ORDER_COUNT
      THEN [rowMap |-> m, processedNetDocs |-> acc.processedNetDocs]
      ELSE IF t = NET_AMOUNT
      THEN IF ~ netDocProcessed(acc.processedNetDocs, row)
           THEN [rowMap |-> [m EXCEPT ![i] = addToEntry(m[i], row.salesRep, netVal(row))],
                 processedNetDocs |-> acc.processedNetDocs \cup {row.docId}]
           ELSE [rowMap |-> m, processedNetDocs |-> acc.processedNetDocs]
      ELSE IF t = PRODUCT_LIST
      THEN [rowMap |-> [m EXCEPT ![i] = addToEntry(m[i], row.salesRep, row.quantity)],
            processedNetDocs |-> acc.processedNetDocs]
      ELSE [rowMap |-> m, processedNetDocs |-> acc.processedNetDocs]

\* newProcessedNetDocs as a set of the module that outlives the calls: it
\* holds the documents the earlier NET_AMOUNT calls have recorded
newProcessedNetDocs_Shared ==
  UNION {{filterRows(p.rows)[i].docId : i \in 1..Len(filterRows(p.rows))} :
           p \in {q \in returned : q.type = NET_AMOUNT}}

\* const processedNetDocs = new Set<string>(), made by every call
newProcessedNetDocs == {}

\* step 2: the forEach over the filtered rows, in order
RECURSIVE aggregate(_, _)
aggregate(filteredRows, t) ==
  IF filteredRows = <<>> THEN [rowMap |-> <<>>, processedNetDocs |-> newProcessedNetDocs]
  ELSE aggregateRow(aggregate(SubSeq(filteredRows, 1, Len(filteredRows) - 1), t),
                    filteredRows[Len(filteredRows)], t)

\* the body of the forEach of step 2b: districtEntry is a plain object whose
\* key _total holds the row's set and whose other keys hold the cells' sets
distinctRow(distinctMap, row) ==
  LET rowKey == row.district
      m == IF mapIndex(distinctMap, rowKey) = 0
           THEN Append(distinctMap, [rowKey |-> rowKey, cols |-> [k \in {"_total"} |-> {}]])
           ELSE distinctMap
      i == mapIndex(m, rowKey)
      c0 == m[i].cols
      \* if (!districtEntry[row.salesRep]): a Set is never falsy
      c1 == IF row.salesRep \in DOMAIN c0 THEN c0 ELSE put(c0, row.salesRep, {})
      c2 == put(c1, row.salesRep, c1[row.salesRep] \cup {row.docId})
      c3 == put(c2, "_total", c2["_total"] \cup {row.docId})
  IN  [m EXCEPT ![i].cols = c3]

RECURSIVE distinctMapOf(_)
distinctMapOf(filteredRows) ==
  IF filteredRows = <<>> THEN <<>>
  ELSE distinctRow(distinctMapOf(SubSeq(filteredRows, 1, Len(filteredRows) - 1)),
                   filteredRows[Len(filteredRows)])

\* pivotEntry without the test key !== '_total'
pivotEntry_KeepTotalKey(e) ==
  [rowKey |-> e.rowKey, rowLabel |-> e.rowKey,
   total |-> Cardinality(e.cols["_total"]),
   values |-> [key \in DOMAIN e.cols |-> Cardinality(e.cols[key])]]

\* "Convert Sets to Numbers": one PivotData per entry of distinctMap
pivotEntry(e) ==
  [rowKey |-> e.rowKey, rowLabel |-> e.rowKey,
   total |-> Cardinality(e.cols["_total"]),
   values |-> [key \in DOMAIN e.cols \ {"_total"} |-> Cardinality(e.cols[key])]]

\* rowMapOf keeping only the entries something was added to
rowMapOf_DropEmptyRows(filteredRows, t) ==
  IF t = ORDER_COUNT
  THEN LET dm == distinctMapOf(filteredRows)
       IN  [i \in 1..Len(dm) |-> pivotEntry(dm[i])]
  ELSE SelectSeq(aggregate(filteredRows, t).rowMap, LAMBDA e : e.total # 0)

\* rowMap after steps 2 and 2b: for ORDER_COUNT step 2 adds nothing to the
\* entries it creates and step 2b clears rowMap and refills it from distinctMap
rowMapOf(filteredRows, t) ==
  IF t = ORDER_COUNT
  THEN LET dm == distinctMapOf(filteredRows)
       IN  [i \in 1..Len(dm) |-> pivotEntry(dm[i])]
  ELSE aggregate(filteredRows, t).rowMap

\* compareLabels by code units instead of localeCompare
compareLabels_CodeUnits(a, b) == CompareCodeUnits(a.rowLabel, b.rowLabel)

\* the comparator of step 3
compareLabels(a, b) == localeCompare(a.rowLabel, b.rowLabel)

\* one step of the stable sort of step 3: e goes behind every entry that does
\* not compare greater than it
RECURSIVE insertByLabel(_, _)
insertByLabel(sorted, e) ==
  IF sorted = <<>> THEN <<e>>
  ELSE IF compareLabels(sorted[Len(sorted)], e) <= 0 THEN Append(sorted, e)
  ELSE Append(insertByLabel(SubSeq(sorted, 1, Len(sorted) - 1), e),
              sorted[Len(sorted)])

\* 3. Array.from(rowMap.values()).sort((a, b) => a.rowLabel.localeCompare(b.rowLabel)),
\* a stable sort
RECURSIVE sortData(_)
sortData(rowMap) ==
  IF rowMap = <<>> THEN <<>>
  ELSE insertByLabel(sortData(SubSeq(rowMap, 1, Len(rowMap) - 1)), rowMap[Len(rowMap)])

\* grandTotalOf with the accumulator dropped from the reducer
grandTotalOf_Last(data) == IF data = <<>> THEN 0 ELSE data[Len(data)].total

\* 4. data.reduce((acc, curr) => acc + curr.total, 0)
RECURSIVE grandTotalOf(_)
grandTotalOf(data) ==
  IF data = <<>> THEN 0
  ELSE grandTotalOf(SubSeq(data, 1, Len(data) - 1)) + data[Len(data)].total

\* generateReport taking the columns from all the rows instead of the filtered
\* ones
generateReport_ColumnsOfAllRows(rs, t) ==
  LET filteredRows == filterRows(rs)
      data == sortData(rowMapOf(filteredRows, t))
  IN  [columns |-> salesReps(rs),
       data |-> data,
       grandTotal |-> grandTotalOf(data)]

generateReport(rs, t) ==
  LET filteredRows == filterRows(rs)
      data == sortData(rowMapOf(filteredRows, t))
  IN  [columns |-> salesReps(filteredRows),
       data |-> data,
       grandTotal |-> grandTotalOf(data)]

\* ------------------------------------------------------------ processRawData
\* A record of sheet_to_json is the sequence of its entries [key, val] in the
\* order of Object.keys.  A cell is a JavaScript number or string; the strings
\* of the model are digit strings, the empty string and words that are not
\* numeric literals.  A number returned by Number() is a record that tells
\* whether it is NaN.

NumberCell(n) == [kind |-> "number", num |-> n, str |-> ""]

StringCell(x) == [kind |-> "string", num |-> 0, str |-> x]

JSNumber(n) == [nan |-> FALSE, value |-> n]

NaN == [nan |-> TRUE, value |-> 0]

UpperAccented == "ÁÉÍÓÚÑ"

LowerAccented == "áéíóúñ"

\* the characters of the headers of the model
HeaderChars ==
  Chars \cup CharsOf(UpperAccented) \cup CharsOf(LowerAccented) \cup {".", "/"}

\* String.prototype.toLowerCase on one character
LowerCaseOf ==
  [c \in HeaderChars |->
     IF IndexOf(c, Upper) > 0 THEN SubSeq(Lower, IndexOf(c, Upper), IndexOf(c, Upper))
     ELSE IF IndexOf(c, UpperAccented) > 0
     THEN SubSeq(LowerAccented, IndexOf(c, UpperAccented), IndexOf(c, UpperAccented))
     ELSE c]

\* String.prototype.toLowerCase
RECURSIVE toLowerCase(_)
toLowerCase(x) ==
  IF Len(x) = 0 THEN ""
  ELSE toLowerCase(SubSeq(x, 1, Len(x) - 1)) \o LowerCaseOf[SubSeq(x, Len(x), Len(x))]

RECURSIVE trimStart(_)
trimStart(x) ==
  IF Len(x) > 0 /\ SubSeq(x, 1, 1) = " " THEN trimStart(SubSeq(x, 2, Len(x))) ELSE x

RECURSIVE trimEnd(_)
trimEnd(x) ==
  IF Len(x) > 0 /\ SubSeq(x, Len(x), Len(x)) = " "
  THEN trimEnd(SubSeq(x, 1, Len(x) - 1)) ELSE x

\* String.prototype.trim (the white space of the model is the space)
trim(x) == trimEnd(trimStart(x))

\* the decimal digits of a natural number
RECURSIVE NumberToString(_)
NumberToString(n) ==
  IF n < 10 THEN SubSeq(Digits, n + 1, n + 1)
  ELSE NumberToString(n \div 10) \o SubSeq(Digits, (n % 10) + 1, (n % 10) + 1)

\* String(v)
String(v) == IF v.kind = "number" THEN NumberToString(v.num) ELSE v.str

IsDigits(x) == Len(x) > 0 /\ \A i \in 1..Len(x) : IndexOf(SubSeq(x, i, i), Digits) > 0

RECURSIVE ParseDigits(_)
ParseDigits(x) ==
  IF Len(x) = 0 THEN 0
  ELSE 10 * ParseDigits(SubSeq(x, 1, Len(x) - 1)) + IndexOf(SubSeq(x, Len(x), Len(x)), Digits) - 1

\* Number(v): a number is itself; a string is trimmed, the empty string is 0,
\* a numeric literal is its value and any other string is NaN
Number(v) ==
  IF v.kind = "number" THEN JSNumber(v.num)
  ELSE IF trim(v.str) = "" THEN JSNumber(0)
  ELSE IF IsDigits(trim(v.str)) THEN JSNumber(ParseDigits(trim(v.str)))
  ELSE NaN

\* the possibleKeys of every field, in the order of the source
FieldAliases ==
  [docId |-> <<"Número de documento", "Numero de documento", "DocNum">>,
   status |-> <<"Estado", "Status">>,
   groupName |-> <<"Nombre de Grupo", "Grupo">>,
   district |-> <<"Condado", "Distrito", "District">>,
   salesRep |-> <<"Nombre de empleado del departamento de ventas", "Empleado",
                  "Vendedor", "Sales Rep">>,
   totalAmount |-> <<"Total del documento", "Total Documento", "Total">>,
   itemId |-> <<"Número de artículo", "Numero de articulo", "Item No", "Articulo">>,
   itemDesc |-> <<"Descripción artículo/serv.", "Descripcion", "Description">>,
   quantity |-> <<"Cantidad", "Qty", "Unidades">>,
   clientName |-> <<"Nombre de cliente/proveedor", "Nombre de cliente", "CardName",
                     "Cliente">>,
   destination |-> <<"Destino", "ShipToCode", "Dirección de destino", "Direccion">>]

\* the defaultVal of every field
FieldDefaults ==
  [docId |-> StringCell(""),
   status |-> StringCell(""),
   groupName |-> StringCell(""),
   district |-> StringCell("Sin Condado"),
   salesRep |-> StringCell("Desconocido"),
   totalAmount |-> NumberCell(0),
   itemId |-> StringCell(""),
   itemDesc |-> StringCell(""),
   quantity |-> NumberCell(1),
   clientName |-> StringCell("Cliente Desconocido"),
   destination |-> StringCell("")]

\* pk.toLowerCase() of every alias
LowerCaseAliases ==
  [f \in DOMAIN FieldAliases |->
     [i \in 1..Len(FieldAliases[f]) |-> toLowerCase(FieldAliases[f][i])]]

\* possibleKeys.some(pk => k.toLowerCase().trim() === pk.toLowerCase())
someAliasIs(f, k) == arrayIncludes(LowerCaseAliases[f], trim(toLowerCase(k)))

\* Object.keys(row).find(k => ...): the position of the first key of the
\* record that is some alias of the field, 0 when there is none
findKey(row, f) ==
  IF \E i \in 1..Len(row) : someAliasIs(f, row[i].key)
  THEN CHOOSE i \in 1..Len(row) :
         /\ someAliasIs(f, row[i].key)
         /\ \A j \in 1..(i - 1) : ~ someAliasIs(f, row[j].key)
  ELSE 0

\* getVal returning the empty string when no key is found
getVal_NoDefault(row, f) ==
  LET i == findKey(row, f)
  IN  IF i # 0 /\ row[i].key # "" THEN row[i].val ELSE StringCell("")

\* getVal(possibleKeys, defaultVal) for the field f: foundKey ? row[foundKey] : defaultVal
getVal(row, f) ==
  LET i == findKey(row, f)
  IN  IF i # 0 /\ row[i].key # "" THEN row[i].val ELSE FieldDefaults[f]

\* the callback of data.map
processRow(row) ==
  [docId |-> String(getVal(row, "docId")),
   status |-> String(getVal(row, "status")),
   groupName |-> String(getVal(row, "groupName")),
   district |-> String(getVal(row, "district")),
   salesRep |-> String(getVal(row, "salesRep")),
   totalAmount |-> Number(getVal(row, "totalAmount")),
   itemId |-> String(getVal(row, "itemId")),
   itemDesc |-> String(getVal(row, "itemDesc")),
   quantity |-> Number(getVal(row, "quantity")),
   clientName |-> String(getVal(row, "clientName")),
   destination |-> String(getVal(row, "destination"))]

processRawData(data) == [i \in 1..Len(data) |-> processRow(data[i])]

\* ------------------------------------------------------------ exportReportToExcel
\* A sheet row is the sequence of its cells, strings and numbers.  The file
\* name is given to XLSX.writeFile only and does not enter the sheet.

superHeaderRowOf(t) ==
  IF t = PRODUCT_LIST
  THEN <<"LISTA DE PRODUCTOS", "", "", "Nombre de empleado del departamento de ventas">>
  ELSE <<IF t = ORDER_COUNT THEN "CANTIDAD DE PEDIDOS" ELSE "MONTOS NETOS",
         "CANAL / MAYORISTAS">>

headerRowOf(rep, t) ==
  IF t = PRODUCT_LIST
  THEN <<"Número de artículo", "Descripción artículo/serv.", "Total general">> \o rep.columns
  ELSE <<"DISTRITO">> \o rep.columns \o <<"Total general">>

\* cellsOf listing the values the row has, in the order of the columns
cellsOf_OwnValues(rep, row) ==
  LET own == SelectSeq(rep.columns, LAMBDA col : col \in DOMAIN row.values)
  IN  [j \in 1..Len(own) |-> row.values[own[j]]]

\* the cells of a data row: report.columns.forEach(col => rowData.push(row.values[col] || 0))
cellsOf(rep, row) == [j \in 1..Len(rep.columns) |-> valueOr0(row.values, rep.columns[j])]

\* the callback of report.data.forEach
dataRowOf(rep, row, t) ==
  IF t = PRODUCT_LIST
  THEN <<row.rowKey, row.rowLabel, row.total>> \o cellsOf(rep, row)
  ELSE <<row.rowLabel>> \o cellsOf(rep, row) \o <<row.total>>

\* colTotalOf taking the share of the column in the totals of the rows: the
\* total of every row that has a value for the column
colTotalOf_RowTotals(data, col) ==
  LET having == SelectSeq(data, LAMBDA r : col \in DOMAIN r.values)
      Sum[i \in 0..Len(having)] == IF i = 0 THEN 0 ELSE Sum[i - 1] + having[i].total
  IN  Sum[Len(having)]

\* colTotals[col] = report.data.reduce((sum, r) => sum + (r.values[col] || 0), 0)
RECURSIVE colTotalOf(_, _)
colTotalOf(data, col) ==
  IF data = <<>> THEN 0
  ELSE colTotalOf(SubSeq(data, 1, Len(data) - 1), col) + valueOr0(data[Len(data)].values, col)

footerRowOf(rep, t) ==
  LET sums == [j \in 1..Len(rep.columns) |-> colTotalOf(rep.data, rep.columns[j])]
  IN  IF t = PRODUCT_LIST
      THEN <<"TOTALES", "", rep.grandTotal>> \o sums
      ELSE <<"TOTALES">> \o sums \o <<rep.grandTotal>>

\* mergesOf with the rep-group merge at the offset of the district layouts
\* for every kind
mergesOf_SameOffset(rep, t) ==
  (IF t = PRODUCT_LIST
   THEN <<[s |-> [r |-> 0, c |-> 0], e |-> [r |-> 0, c |-> 1]]>>
   ELSE <<>>)
  \o (IF Len(rep.columns) > 0
      THEN <<[s |-> [r |-> 0, c |-> 1], e |-> [r |-> 0, c |-> 1 + Len(rep.columns) - 1]]>>
      ELSE <<>>)

\* ws['!merges']: zero-based cell addresses s (start) and e (end)
mergesOf(rep, t) ==
  IF t = PRODUCT_LIST
  THEN <<[s |-> [r |-> 0, c |-> 0], e |-> [r |-> 0, c |-> 1]]>>
       \o (IF Len(rep.columns) > 0
            THEN <<[s |-> [r |-> 0, c |-> 3], e |-> [r |-> 0, c |-> 3 + Len(rep.columns) - 1]]>>
            ELSE <<>>)
  ELSE IF Len(rep.columns) > 0
       THEN <<[s |-> [r |-> 0, c |-> 1], e |-> [r |-> 0, c |-> 1 + Len(rep.columns) - 1]]>>
       ELSE <<>>

\* the workbook exportReportToExcel writes: the rows given to aoa_to_sheet,
\* the merges and the name of the sheet
exportReportToExcel(rep, t) ==
  [report |-> rep,
   type |-> t,
   wsData |-> <<superHeaderRowOf(t), headerRowOf(rep, t)>>
              \o [i \in 1..Len(rep.data) |-> dataRowOf(rep, rep.data[i], t)]
              \o <<footerRowOf(rep, t)>>,
   merges |-> mergesOf(rep, t),
   sheetName |-> "Reporte"]

\* ------------------------------------------------------------ exportClientSearchToExcel
\* exportClientSearchToExcel applied to the rows that pass filterRows only
exportClientSearchToExcel_Filtered(rs) ==
  LET kept == filterRows(rs)
  IN  [rows |-> rs,
       wsData |-> <<<<"Número de artículo", "Descripción artículo/serv.", "Cantidad",
                      "Condado", "Destino", "Cliente">>>>
                  \o [i \in 1..Len(kept) |->
                        <<kept[i].itemId, kept[i].itemDesc, kept[i].quantity,
                          kept[i].district, kept[i].destination, kept[i].clientName>>],
       cols |-> <<15, 40, 10, 15, 20, 30>>,
       sheetName |-> "Búsqueda Clientes"]

\* the workbook exportClientSearchToExcel writes: the rows given to
\* aoa_to_sheet, the widths of the columns and the name of the sheet
exportClientSearchToExcel(rs) ==
  [rows |-> rs,
   wsData |-> <<<<"Número de artículo", "Descripción artículo/serv.", "Cantidad",
                  "Condado", "Destino", "Cliente">>>>
              \o [i \in 1..Len(rs) |->
                    <<rs[i].itemId, rs[i].itemDesc, rs[i].quantity,
                      rs[i].district, rs[i].destination, rs[i].clientName>>],
   cols |-> <<15, 40, 10, 15, 20, 30>>,
   sheetName |-> "Búsqueda Clientes"]

\* ------------------------------------------------------------ parseExcel, App, FileUpload
\* A file is what the upload cycle can tell about it: whether FileReader
\* reads it, whether XLSX.read decodes what was read, and the records
\* sheet_to_json returns for its first sheet.
File(readable, decodes, records) ==
  [readable |-> readable, decodes |-> decodes, records |-> records]

\* the promise of parseExcel(file) once settled: rejected by reader.onerror or
\* by the catch of reader.onload, resolved with processRawData(jsonData)
parseExcel(file) ==
  IF ~ file.readable THEN [status |-> "rejected", by |-> "onerror"]
  ELSE IF ~ file.decodes THEN [status |-> "rejected", by |-> "catch"]
  ELSE [status |-> "resolved", value |-> processRawData(file.records)]

\* the message handleFileUpload throws for a file without rows
EmptyFileMessage == "El archivo no contiene datos válidos o está vacío."

\* the message the catch of handleFileUpload sets
InvalidFileMessage ==
  "Error al procesar el archivo. Asegúrate de que es un Excel válido (.xlsx)."

\* tryBlock storing the rows before their number is tested
tryBlock_StoreFirst(settled, rd) ==
  IF settled.status = "rejected" THEN [thrown |-> Some("rejected"), rawData |-> rd]
  ELSE IF Len(settled.value) = 0
  THEN [thrown |-> Some(EmptyFileMessage), rawData |-> Some(settled.value)]
  ELSE [thrown |-> Null, rawData |-> Some(settled.value)]

\* the try block of handleFileUpload from the await on, rd being rawData
\* before: what is thrown (the rejection of parseExcel or the Error for no
\* rows), or null, and rawData after
tryBlock(settled, rd) ==
  IF settled.status = "rejected" THEN [thrown |-> Some("rejected"), rawData |-> rd]
  ELSE IF Len(settled.value) = 0
  THEN [thrown |-> Some(EmptyFileMessage), rawData |-> rd]
  ELSE [thrown |-> Null, rawData |-> Some(settled.value)]

\* catch (err) { setError(...) }: the message does not depend on err
errorAfter(thrown, err) == IF thrown.null THEN err ELSE Some(InvalidFileMessage)

\* loadingAfter with setLoading(false) at the end of the try block only
loadingAfter_TryOnly(thrown) == ~ thrown.null

\* finally { setLoading(false) }
loadingAfter(thrown) == FALSE

\* ignores without the test of isLoading
ignores_Never(isLoading) == FALSE

\* if (isLoading) return, in handleDrop and handleChange
ignores(isLoading) == isLoading

\* the report of App: the call of generateReport its useMemo makes, or null
reportMemo(rd, tab) ==
  IF rd.null \/ tab = CLIENT_SEARCH THEN Null ELSE Some([rows |-> rd.value, type |-> tab])

\* ------------------------------------------------------------ PivotTable
\* nextSortConfig reversing the direction of whatever key was sorted by
nextSortConfig_ToggleAny(cfg, key) ==
  Some([key |-> key,
        direction |-> IF ~ cfg.null /\ cfg.value.direction = "asc" THEN "desc" ELSE "asc"])

\* handleSort(key): the sortConfig it sets
nextSortConfig(cfg, key) ==
  Some([key |-> key,
        direction |-> IF ~ cfg.null /\ cfg.value.key = key /\ cfg.value.direction = "asc"
                      THEN "desc" ELSE "asc"])

\* valA and valB of the comparator: a.rowLabel || a.rowKey for the keys rowKey
\* and rowLabel, a.total for the key total, a.values[key] || 0 otherwise
sortValueOf(e, key) ==
  IF key = "rowKey" \/ key = "rowLabel"
  THEN [string |-> TRUE, value |-> IF e.rowLabel # "" THEN e.rowLabel ELSE e.rowKey]
  ELSE IF key = "total" THEN [string |-> FALSE, value |-> e.total]
  ELSE [string |-> FALSE, value |-> valueOr0(e.values, key)]

\* valA < valB: by code units for strings, by value for numbers
lessThan(x, y) ==
  IF x.string THEN CompareCodeUnits(x.value, y.value) < 0 ELSE x.value < y.value

\* the comparator of sortedData
compareRows(a, b, cfg) ==
  LET valA == sortValueOf(a, cfg.key)
      valB == sortValueOf(b, cfg.key)
  IN  IF lessThan(valA, valB) THEN (IF cfg.direction = "asc" THEN -1 ELSE 1)
      ELSE IF lessThan(valB, valA) THEN (IF cfg.direction = "asc" THEN 1 ELSE -1)
      ELSE 0

RECURSIVE insertByConfig(_, _, _)
insertByConfig(sorted, e, cfg) ==
  IF sorted = <<>> THEN <<e>>
  ELSE IF compareRows(sorted[Len(sorted)], e, cfg) <= 0 THEN Append(sorted, e)
  ELSE Append(insertByConfig(SubSeq(sorted, 1, Len(sorted) - 1), e, cfg),
              sorted[Len(sorted)])

\* [...report.data].sort(comparator), a stable sort
RECURSIVE sortByConfig(_, _)
sortByConfig(data, cfg) ==
  IF data = <<>> THEN <<>>
  ELSE insertByConfig(sortByConfig(SubSeq(data, 1, Len(data) - 1), cfg),
                      data[Len(data)], cfg)

\* sortedData = useMemo(...): report.data itself without a sortConfig
sortedData(data, cfg) == IF cfg.null THEN data ELSE sortByConfig(data, cfg.value)

\* dataAfterSort with report.data.sort(comparator): the array of the report
\* is sorted in place
dataAfterSort_InPlace(data, cfg) == sortedData(data, cfg)

\* report.data after sortedData has been computed: the sort is applied to the
\* copy [...report.data], report.data keeps its order
dataAfterSort(data, cfg) == data

\* what PivotTable renders: the sorted rows, the totals of the columns
\* computed from report.data, and report.grandTotal
render(rep, cfg) ==
  [rows |-> sortedData(rep.data, cfg),
   colTotals |-> [j \in 1..Len(rep.columns) |-> colTotalOf(rep.data, rep.columns[j])],
   grandTotal |-> rep.grandTotal]

\* the keys of the headers that call handleSort
sortKeysOf(rep, t) ==
  (IF t = PRODUCT_LIST THEN {"rowKey", "rowLabel", "total"} ELSE {"rowLabel", "total"})
  \cup {rep.columns[j] : j \in 1..Len(rep.columns)}

\* ------------------------------------------------------------ inputs
\* a ProcessedRow (the fields generateReport reads)
Row(docId, status, groupName, district, salesRep, totalAmount, itemId, itemDesc, quantity) ==
  [docId |-> docId, status |-> status, groupName |-> groupName,
   district |-> district, salesRep |-> salesRep, totalAmount |-> totalAmount,
   itemId |-> itemId, itemDesc |-> itemDesc, quantity |-> quantity]

\* the sequences of at most n elements of S
SeqUpTo(S, n) == UNION {[1..k -> S] : k \in 0..n}

\* rows of two documents, two districts (each with its product) and two sales
\* reps; the lines of document 1 come with two amounts and quantities; plus a
\* closed row and a row of a group that is not allowed
AggRows ==
  {Row(d, "Abierto", "MAYORISTAS B", k[1], r, 118, k[2], k[3], 2) :
     d \in {"1", "2"},
     k \in {<<"Lima", "P1", "Arroz">>, <<"Cusco", "P2", "Azucar">>},
     r \in {"Ana", "Juan"}}
  \cup {Row("1", "Abierto", "MAYORISTAS C", k[1], r, 59, k[2], k[3], 1) :
          k \in {<<"Lima", "P1", "Arroz">>, <<"Cusco", "P2", "Azucar">>},
          r \in {"Ana", "Juan"}}
  \cup {Row("1", "Cerrado", "MAYORISTAS C", "Lima", "Ana", 118, "P1", "Arroz", 2),
        Row("2", "Abierto", "MAYORISTAS A", "Cusco", "Luis", 59, "P2", "Azucar", 1)}

\* rows of two documents, two districts and three sales reps, one of them
\* named like the key the distinct count keeps its row set under; plus a
\* closed row of a fourth rep
OrderRows ==
  {Row(d, "Abierto", "MAYORISTAS D", k, r, 118, "P1", "Arroz", 2) :
     d \in {"1", "2"}, k \in {"Lima", "Cusco"}, r \in {"Zoe", "ana", "_total"}}
  \cup {Row("1", "Cerrado Parcial", "MAYORISTAS D", "Lima", "Luis", 118, "P1", "Arroz", 2)}

\* rows of every combination of four statuses and four group names
FilterRows ==
  {Row("1", s, g, "Lima", "Ana", 118, "P1", "Arroz", 2) :
     s \in {"Abierto", "Cerrado", "Cerrado Parcial", "cerrado"},
     g \in {"MAYORISTAS A", "MAYORISTAS B", "MAYORISTAS E", "mayoristas b"}}

\* rows of three products whose labels differ in case, the district being the
\* label; plus a closed row
SortRows ==
  {Row("1", "Abierto", "MAYORISTAS E", l, "Ana", 118, k, l, 2) :
     k \in {"P1", "P2", "P3"}, l \in {"a", "B", "b"}}
  \cup {Row("1", "Cerrado", "MAYORISTAS E", "b", "Ana", 118, "P1", "b", 2)}

\* rows of two documents, three districts (one of them the empty string) and
\* two products (one of them of the empty itemId); plus a closed row of a
\* fourth district and a third product
KeyRows ==
  {Row(d, "Abierto", "MAYORISTAS C", k, "Ana", 118, i[1], i[2], 2) :
     d \in {"1", "2"}, k \in {"", "Lima", "Cusco"},
     i \in {<<"", "Sin codigo">>, <<"P1", "Arroz">>}}
  \cup {Row("1", "Cerrado", "MAYORISTAS C", "Ica", "Ana", 118, "P9", "Sal", 2)}

\* the records A, B and C of the scenario of section 8 (B with the itemId of A
\* and with another one), and a record of a second document
ScenarioRows ==
  {Row("1", "Abierto", "MAYORISTAS B", "Lima", "Juan", 118, "P1", "Arroz", 2),
   Row("1", "Abierto", "MAYORISTAS B", "Lima", "Juan", 50, "P1", "Arroz", 1),
   Row("1", "Abierto", "MAYORISTAS B", "Lima", "Juan", 50, "P2", "Azucar", 1),
   Row("2", "Abierto", "MAYORISTAS A", "Lima", "Ana", 200, "P1", "Arroz", 1),
   Row("2", "Abierto", "MAYORISTAS E", "Cusco", "Ana", 236, "P2", "Azucar", 4)}

\* rows of two documents, two districts (each with its product) and three
\* sales reps, one of them named like the key of the distinct count; plus a
\* closed row
ExportRows ==
  {Row(d, "Abierto", "MAYORISTAS B", k[1], r, 118, k[2], k[3], 2) :
     d \in {"1", "2"},
     k \in {<<"Lima", "P1", "Arroz">>, <<"Cusco", "P2", "Azucar">>},
     r \in {"Ana", "Juan"}}
  \cup {Row("2", "Abierto", "MAYORISTAS B", "Lima", "_total", 59, "P1", "Arroz", 1),
        Row("1", "Cerrado", "MAYORISTAS C", "Lima", "Juan", 118, "P1", "Arroz", 2)}

\* rows with the client and the destination: two statuses, two group names
\* (one of them outside the allowed groups) and two products, each with its
\* client, destination, district and quantity
ClientRows ==
  {[docId |-> "1", status |-> s, groupName |-> g, district |-> k[4], salesRep |-> "Ana",
    totalAmount |-> 118, itemId |-> k[1], itemDesc |-> k[2], quantity |-> k[3],
    clientName |-> k[5], destination |-> k[6]] :
     s \in {"Abierto", "Cerrado"},
     g \in {"MAYORISTAS B", "MINORISTAS"},
     k \in {<<"P1", "Arroz", 2, "Lima", "Bodega Sol", "Callao">>,
            <<"P2", "Azucar", 5, "Cusco", "Tienda Luna", "">>}}

\* an entry of a record
Entry(key, val) == [key |-> key, val |-> val]

\* records: an empty one; the district under two aliases, in both orders; the
\* line total in front of the document total; headers in another case and
\* with spaces around, with a quantity that is no number; a numeric document
\* number and an amount in digits; an empty quantity; an unknown header
RawRecords ==
  {<<>>,
   <<Entry("Distrito", StringCell("Lima")), Entry("Condado", StringCell("Cusco"))>>,
   <<Entry("Condado", StringCell("Cusco")), Entry("Distrito", StringCell("Lima"))>>,
   <<Entry("Total", NumberCell(5)), Entry("Total del documento", NumberCell(118))>>,
   <<Entry(" ESTADO ", StringCell("Abierto")), Entry("cantidad", StringCell("abc"))>>,
   <<Entry("DocNum", NumberCell(7)), Entry("Total", StringCell("59"))>>,
   <<Entry("Qty", StringCell("")), Entry("Vendedor", StringCell("Ana"))>>,
   <<Entry("Otro", StringCell("x"))>>}

\* rows of two districts, each with its product, and two reps, whose
\* quantities, documents and amounts order the rows differently by column
PivotRows ==
  {Row("1", "Abierto", "MAYORISTAS B", "Lima", "Ana", 118, "P2", "Arroz", 2),
   Row("2", "Abierto", "MAYORISTAS B", "Cusco", "Ana", 590, "P1", "Sal", 5),
   Row("3", "Abierto", "MAYORISTAS C", "Lima", "Juan", 236, "P2", "Arroz", 9),
   Row("4", "Abierto", "MAYORISTAS C", "Cusco", "Juan", 59, "P1", "Sal", 1)}

\* files: one FileReader cannot read, one XLSX.read cannot decode, a workbook
\* without data rows, and workbooks of one and of two data rows
Files ==
  {File(FALSE, FALSE, <<>>),
   File(TRUE, FALSE, <<>>),
   File(TRUE, TRUE, <<>>),
   File(TRUE, TRUE, <<<<Entry("DocNum", NumberCell(7)), Entry("Total", StringCell("59"))>>>>),
   File(TRUE, TRUE, <<<<Entry("Qty", StringCell("")), Entry("Vendedor", StringCell("Ana"))>>,
                      <<Entry("Condado", StringCell("Cusco"))>>>>)}

\* ------------------------------------------------------------ state machine
\* a call of generateReport(rows, t); filtered is what its call of filterRows
\* returned (filterRows is not exported: generateReport is its only caller)
GenerateReportStep(t) ==
  /\ filtered' = filterRows(rows)
  /\ type' = t
  /\ report' = generateReport(rows, t)
  /\ called' = called \cup {"generateReport"}
  /\ UNCHANGED rows

CallGenerateReport(t) ==
  /\ GenerateReportStep(t)
  /\ UNCHANGED <<returned, refiltered, raw, processed, exported, uiVars>>

\* the same call, with the history of the calls kept: the number of the call,
\* the argument as it was before the call, the kind and the result
CallGenerateReportRecorded(t) ==
  /\ Cardinality(returned) < MaxCalls
  /\ GenerateReportStep(t)
  /\ returned' = returned \cup {[n |-> Cardinality(returned) + 1, rows |-> rows,
                                  type |-> t, report |-> report']}
  /\ UNCHANGED <<refiltered, raw, processed, exported, uiVars>>

\* filterRows applied to the rows an earlier call of it returned
CallFilterRowsOnResult ==
  /\ "generateReport" \in called
  /\ refiltered' = filterRows(filtered)
  /\ called' = called \cup {"filterRows"}
  /\ UNCHANGED <<rows, filtered, type, report, returned, raw, processed, exported, uiVars>>

\* a call of processRawData(raw), as parseExcel makes it
CallProcessRawData ==
  /\ processed' = processRawData(raw)
  /\ called' = called \cup {"processRawData"}
  /\ UNCHANGED <<rows, filtered, type, report, returned, refiltered, raw, exported, uiVars>>

\* handleDownload of the application: exportReportToExcel(report, activeTab,
\* filename), once a report has been generated
CallExportReportToExcel ==
  /\ "generateReport" \in called
  /\ exported' = exportReportToExcel(report, type)
  /\ called' = called \cup {"exportReportToExcel"}
  /\ UNCHANGED <<rows, filtered, type, report, returned, refiltered, raw, processed, uiVars>>

\* a call of exportClientSearchToExcel(rows, filename)
CallExportClientSearchToExcel ==
  /\ clientExported' = exportClientSearchToExcel(rows)
  /\ called' = called \cup {"exportClientSearchToExcel"}
  /\ UNCHANGED <<rows, filtered, type, report, returned, refiltered, raw, processed, exported,
                 rawData, loading, error, activeTab, pending, event, shown, sortConfig, displayed>>

\* the variables of the functions of dataProcessor.ts
coreVars == <<rows, filtered, type, report, returned, refiltered, raw, processed, exported,
              clientExported>>

\* onFileUpload(file) up to the await: handleFileUpload sets loading, clears
\* error and calls parseExcel(file)
StartUpload(file) ==
  /\ Len(pending) < MaxPending
  /\ loading' = TRUE
  /\ error' = Null
  /\ pending' = Append(pending, file)

\* handleDrop of FileUpload, which is mounted while rawData is null
HandleDrop(file) ==
  /\ rawData.null
  /\ IF ignores(loading)
     THEN UNCHANGED <<loading, error, pending>>
     ELSE StartUpload(file)
  /\ event' = [name |-> "handleDrop", file |-> file]
  /\ called' = called \cup {"handleDrop"}
  /\ UNCHANGED <<coreVars, rawData, activeTab, shown, sortConfig, displayed>>

\* handleChange of the file input of FileUpload
HandleChange(file) ==
  /\ rawData.null
  /\ IF ignores(loading)
     THEN UNCHANGED <<loading, error, pending>>
     ELSE StartUpload(file)
  /\ event' = [name |-> "handleChange", file |-> file]
  /\ called' = called \cup {"handleChange"}
  /\ UNCHANGED <<coreVars, rawData, activeTab, shown, sortConfig, displayed>>

\* onClick of the drop zone: !isLoading && fileInput.click() opens the file
\* dialog of the browser, whose choice arrives as a change event
ClickDropZone ==
  /\ rawData.null
  /\ event' = [name |-> "onClick", opened |-> ~ loading]
  /\ called' = called \cup {"onClick"}
  /\ UNCHANGED <<coreVars, rawData, loading, error, activeTab, pending, shown,
                 sortConfig, displayed>>

\* the i-th unsettled promise of parseExcel settles and handleFileUpload runs
\* from its await to its end
Settle(i) ==
  LET file == pending[i]
      settled == parseExcel(file)
      t == tryBlock(settled, rawData)
  IN  /\ rawData' = t.rawData
      /\ error' = errorAfter(t.thrown, error)
      /\ loading' = loadingAfter(t.thrown)
      /\ pending' = SubSeq(pending, 1, i - 1) \o SubSeq(pending, i + 1, Len(pending))
      /\ event' = [name |-> "settled", file |-> file]
      /\ shown' = IF t.thrown.null THEN shown
                  ELSE shown \cup {[cause |-> IF settled.status = "rejected"
                                                THEN "rejected" ELSE "empty",
                                      error |-> error',
                                      loading |-> loading']}
      /\ called' = called \cup {"handleFileUpload"}
      /\ UNCHANGED <<coreVars, activeTab, sortConfig, displayed>>

\* onClick of a tab of the dashboard, which is mounted while rawData is not
\* null
SetActiveTab(tab) ==
  /\ ~ rawData.null
  /\ activeTab' = tab
  /\ event' = [name |-> "setActiveTab", tab |-> tab]
  /\ called' = called \cup {"setActiveTab"}
  /\ UNCHANGED <<coreVars, rawData, loading, error, pending, shown, sortConfig, displayed>>

\* onClick of "Cargar otro archivo": setRawData(null)
LoadAnotherFile ==
  /\ ~ rawData.null
  /\ rawData' = Null
  /\ event' = [name |-> "setRawData"]
  /\ called' = called \cup {"setRawData"}
  /\ UNCHANGED <<coreVars, loading, error, activeTab, pending, shown, sortConfig, displayed>>

\* App gives PivotTable the report of a tab, and PivotTable renders it; the
\* sortConfig of the mounted PivotTable is kept
ShowReport(t) ==
  /\ GenerateReportStep(t)
  /\ displayed' = render(report', sortConfig)
  /\ event' = [name |-> "generateReport", type |-> t]
  /\ UNCHANGED <<returned, refiltered, raw, processed, exported, clientExported,
                 rawData, loading, error, activeTab, pending, shown, sortConfig>>

\* onClick of a header of the mounted PivotTable: handleSort(key), and the
\* render that follows
HandleSort(key) ==
  /\ "generateReport" \in called
  /\ key \in sortKeysOf(report, type)
  /\ sortConfig' = nextSortConfig(sortConfig, key)
  /\ report' = [report EXCEPT !.data = dataAfterSort(report.data, sortConfig')]
  /\ displayed' = render(report', sortConfig')
  /\ event' = [name |-> "handleSort", key |-> key]
  /\ called' = called \cup {"handleSort"}
  /\ UNCHANGED <<rows, filtered, type, returned, refiltered, raw, processed, exported,
                 clientExported, rawData, loading, error, activeTab, pending, shown>>

Next == \E t \in ReportTypes : CallGenerateReport(t)

NextPivot ==
  \/ \E t \in ReportTypes : ShowReport(t)
  \/ \E key \in {"rowKey", "rowLabel", "total", "Ana", "Juan"} : HandleSort(key)

NextApp ==
  \/ \E file \in Files : HandleDrop(file)
  \/ \E file \in Files : HandleChange(file)
  \/ ClickDropZone
  \/ \E i \in 1..Len(pending) : Settle(i)
  \/ \E tab \in Tabs : SetActiveTab(tab)
  \/ LoadAnotherFile

NextExport == (\E t \in ReportTypes : CallGenerateReport(t)) \/ CallExportReportToExcel

NextClient == CallExportClientSearchToExcel

NextRaw == CallProcessRawData

NextRecorded == \E t \in ReportTypes : CallGenerateReportRecorded(t)

NextRefilter == (\E t \in ReportTypes : CallGenerateReport(t)) \/ CallFilterRowsOnResult

\* the components after construction: the initial values of useState in App
\* and PivotTable; nothing exported, no upload started
InitUI ==
  /\ clientExported = None
  /\ rawData = Null
  /\ loading = FALSE
  /\ error = Null
  /\ activeTab = ORDER_COUNT
  /\ pending = <<>>
  /\ event = [name |-> None]
  /\ shown = {}
  /\ sortConfig = Null
  /\ displayed = None

InitOn(S) ==
  /\ InitUI
  /\ rows \in SeqUpTo(S, MaxRows)
  /\ filtered = None
  /\ type = None
  /\ report = None
  /\ returned = {}
  /\ refiltered = None
  /\ raw = <<>>
  /\ processed = None
  /\ exported = None
  /\ called = {}

Init == InitOn(AggRows)

Spec == Init /\ [][Next]_vars

InitOrder == InitOn(OrderRows)

SpecOrder == InitOrder /\ [][Next]_vars

InitFilter == InitOn(FilterRows)

SpecFilter == InitFilter /\ [][Next]_vars

InitSort == InitOn(SortRows)

SpecSort == InitSort /\ [][Next]_vars

InitKeys == InitOn(KeyRows)

SpecKeys == InitKeys /\ [][Next]_vars

InitScenario == InitOn(ScenarioRows)

SpecScenario == InitScenario /\ [][NextRecorded]_vars

SpecRefilter == InitFilter /\ [][NextRefilter]_vars

InitExport == InitOn(ExportRows)

SpecExport == InitExport /\ [][NextExport]_vars

InitClient == InitOn(ClientRows)

InitPivot == InitOn(PivotRows)

SpecPivot == InitPivot /\ [][NextPivot]_vars

\* the application after construction, no function of dataProcessor.ts called
InitApp == InitOn({})

SpecApp == InitApp /\ [][NextApp]_vars

SpecClient == InitClient /\ [][NextClient]_vars

InitRaw ==
  /\ InitUI
  /\ raw \in SeqUpTo(RawRecords, MaxRows)
  /\ rows = <<>>
  /\ filtered = None
  /\ type = None
  /\ report = None
  /\ returned = {}
  /\ refiltered = None
  /\ processed = None
  /\ exported = None
  /\ called = {}

SpecRaw == InitRaw /\ [][NextRaw]_vars

\* ------------------------------------------------------------ properties
\* The definitions below state the expected results from the input rows
\* alone, without the operators of generateReport.

\* the row passes the filter of section 4.2
Passes(row) ==
  /\ row.groupName \in {"MAYORISTAS B", "MAYORISTAS C", "MAYORISTAS D", "MAYORISTAS E"}
  /\ ~ includes(row.status, "Cerrado")

\* the positions of the input rows that pass the filter
PassingRows == {i \in 1..Len(rows) : Passes(rows[i])}

RECURSIVE SumSeq(_)
SumSeq(q) == IF q = <<>> THEN 0 ELSE Head(q) + SumSeq(Tail(q))

\* the sum of the entries of a values mapping
RECURSIVE SumValues(_)
SumValues(f) ==
  IF DOMAIN f = {} THEN 0
  ELSE LET k == CHOOSE x \in DOMAIN f : TRUE
       IN  f[k] + SumValues([x \in DOMAIN f \ {k} |-> f[x]])

\* the cell of row key and rep in the report, 0 when the row or the key is absent
CellOf(key, rep) ==
  SumSeq([i \in 1..Len(report.data) |->
            IF report.data[i].rowKey = key /\ rep \in DOMAIN report.data[i].values
            THEN report.data[i].values[rep] ELSE 0])

\* the total of the row of a key in the report, 0 when the row is absent
TotalOf(key) ==
  SumSeq([i \in 1..Len(report.data) |->
            IF report.data[i].rowKey = key THEN report.data[i].total ELSE 0])

AllDistricts == {rows[i].district : i \in 1..Len(rows)}

AllReps == {rows[i].salesRep : i \in 1..Len(rows)}

AllItems == {rows[i].itemId : i \in 1..Len(rows)}

\* row i is the first passing line of its document
FirstLineOfDoc(i) ==
  /\ i \in PassingRows
  /\ \A j \in PassingRows : j < i => rows[j].docId # rows[i].docId

\* the net amount (in fifty-ninths) that the first lines of the documents
\* bring to the district d, under the rep r
NetOfFirstLines(d, r) ==
  SumSeq([i \in 1..Len(rows) |->
            IF FirstLineOfDoc(i) /\ rows[i].district = d /\ rows[i].salesRep = r
            THEN 50 * rows[i].totalAmount ELSE 0])

\* C1: in a NET_AMOUNT report every cell (district, rep) is the sum of
\* totalAmount / 1.18 over the first passing lines of the documents that carry
\* this district and this rep, and every row total is that sum over the reps:
\* a later line of a document adds nothing anywhere.
C1_NetAmountDedup ==
  type = NET_AMOUNT =>
    \A d \in AllDistricts :
      /\ \A r \in AllReps : CellOf(d, r) = NetOfFirstLines(d, r)
      /\ TotalOf(d) = SumSeq([i \in 1..Len(rows) |->
                                IF FirstLineOfDoc(i) /\ rows[i].district = d
                                THEN 50 * rows[i].totalAmount ELSE 0])

\* a later passing line of a counted document differs from the first line in
\* amount, district and rep, and a NET_AMOUNT report has been generated
C1_Witness ==
  /\ type = NET_AMOUNT
  /\ \E i, j \in PassingRows :
       /\ FirstLineOfDoc(i) /\ i < j
       /\ rows[j].docId = rows[i].docId
       /\ rows[j].totalAmount # rows[i].totalAmount
       /\ rows[j].district # rows[i].district
       /\ rows[j].salesRep # rows[i].salesRep
       /\ CellOf(rows[j].district, rows[j].salesRep) = 0
       /\ CellOf(rows[i].district, rows[i].salesRep) = 50 * rows[i].totalAmount

\* the entry of a rep in a row of the report, 0 when the key is absent
CellAt(e, rep) == IF rep \in DOMAIN e.values THEN e.values[rep] ELSE 0

\* the documents of the passing rows of district d and rep r
DocsOfCell(d, r) ==
  {rows[j].docId : j \in {j \in PassingRows : rows[j].district = d /\ rows[j].salesRep = r}}

\* the documents of the passing rows of district d
DocsOfDistrict(d) ==
  {rows[j].docId : j \in {j \in PassingRows : rows[j].district = d}}

\* C2: in an ORDER_COUNT report, for every row and every rep of the passing
\* rows, whatever its name, the cell (0 when the key is absent) is the number
\* of distinct documents of the passing rows of that district and rep.
C2_OrderCountCells ==
  type = ORDER_COUNT =>
    \A i \in 1..Len(report.data) :
      \A r \in {rows[j].salesRep : j \in PassingRows} :
        CellAt(report.data[i], r) = Cardinality(DocsOfCell(report.data[i].rowKey, r))

\* the pairs of rep and document of the passing rows of district d
RepDocsOfDistrict(d) ==
  {<<rows[j].salesRep, rows[j].docId>> : j \in {j \in PassingRows : rows[j].district = d}}

\* C3: in an ORDER_COUNT report the total of every row is the number of
\* distinct documents of the passing rows of its district, not the sum of its
\* cells: when a document of the district appears under two different reps,
\* the total counts it once and the sum of the row's cells counts it once for
\* each rep it appears under.
C3_OrderCountRowTotal ==
  type = ORDER_COUNT =>
    \A i \in 1..Len(report.data) :
      LET d == report.data[i].rowKey
      IN  /\ report.data[i].total = Cardinality(DocsOfDistrict(d))
          /\ (\E p, q \in RepDocsOfDistrict(d) : p[1] # q[1] /\ p[2] = q[2]) =>
               /\ SumValues(report.data[i].values) = Cardinality(RepDocsOfDistrict(d))
               /\ report.data[i].total < SumValues(report.data[i].values)

\* the sum of the quantities of the passing rows of item k and, when r is
\* given, of rep r
QuantityOf(k, R) ==
  SumSeq([i \in 1..Len(rows) |->
            IF i \in PassingRows /\ rows[i].itemId = k /\ rows[i].salesRep \in R
            THEN rows[i].quantity ELSE 0])

\* C4: in a PRODUCT_LIST report every cell (item, rep) is the sum of quantity
\* over the passing rows of that item and rep, and every row total is the sum
\* of quantity over the passing rows of that item.
C4_ProductListSums ==
  type = PRODUCT_LIST =>
    \A k \in AllItems :
      /\ \A r \in AllReps : CellOf(k, r) = QuantityOf(k, {r})
      /\ TotalOf(k) = QuantityOf(k, AllReps)

\* an item with two passing lines of one rep, of different quantities, and a
\* line of another rep
C4_Witness ==
  /\ type = PRODUCT_LIST
  /\ \E i, j, l \in PassingRows :
       /\ i < j
       /\ rows[i].itemId = rows[j].itemId /\ rows[i].itemId = rows[l].itemId
       /\ rows[i].salesRep = rows[j].salesRep /\ rows[i].salesRep # rows[l].salesRep
       /\ rows[i].quantity # rows[j].quantity
       /\ CellOf(rows[i].itemId, rows[i].salesRep) = rows[i].quantity + rows[j].quantity
       /\ TotalOf(rows[i].itemId) = rows[i].quantity + rows[j].quantity + rows[l].quantity

\* C5: filterRows returns the rows whose status does not contain "Cerrado" and
\* whose groupName is one of the four allowed names, and only those: a row of
\* status "Cerrado Parcial" or group "MAYORISTAS A" is dropped, a row of group
\* "MAYORISTAS B" whose status does not contain "Cerrado" is kept.
C5_FilterPredicate ==
  type \in ReportTypes =>
    /\ filtered = SelectSeq(rows, Passes)
    /\ \A i \in 1..Len(rows) :
         /\ rows[i].status = "Cerrado Parcial" =>
              \A j \in 1..Len(filtered) : filtered[j] # rows[i]
         /\ rows[i].groupName = "MAYORISTAS A" =>
              \A j \in 1..Len(filtered) : filtered[j] # rows[i]
         /\ rows[i].groupName = "mayoristas b" =>
              \A j \in 1..Len(filtered) : filtered[j] # rows[i]
         /\ rows[i].groupName = "MAYORISTAS B" /\ ~ includes(rows[i].status, "Cerrado") =>
              \E j \in 1..Len(filtered) : filtered[j] = rows[i]

\* of a partially closed row, a row of group "MAYORISTAS A" and an open row of
\* group "MAYORISTAS B", filterRows has kept the last one only
C5_Witness ==
  /\ type \in ReportTypes
  /\ Len(rows) = 3
  /\ rows[1].status = "Cerrado Parcial" /\ rows[1].groupName = "MAYORISTAS B"
  /\ rows[2].status = "Abierto" /\ rows[2].groupName = "MAYORISTAS A"
  /\ rows[3].status = "Abierto" /\ rows[3].groupName = "MAYORISTAS B"
  /\ filtered = <<rows[3]>>

\* C6: whatever the report kind, the columns are the distinct salesRep values
\* of the passing rows, each once, in strictly ascending order of code units;
\* the list is determined by the rows alone, so it is the same for every kind.
C6_Columns ==
  type \in ReportTypes =>
    /\ {report.columns[j] : j \in 1..Len(report.columns)}
         = {rows[i].salesRep : i \in PassingRows}
    /\ \A j \in 1..(Len(report.columns) - 1) :
         CompareCodeUnits(report.columns[j], report.columns[j + 1]) < 0

\* a rep occurs twice among the passing rows and behind a rep of a greater
\* name, and the columns list each rep once, the smaller name first
C6_Witness ==
  /\ type \in ReportTypes
  /\ Len(rows) = 3 /\ PassingRows = {1, 2, 3}
  /\ rows[1].salesRep = "ana" /\ rows[2].salesRep = "Zoe" /\ rows[3].salesRep = "ana"
  /\ report.columns = <<"Zoe", "ana">>

\* C7: whatever the report kind, every key of every values mapping of the
\* report is one of the report's columns.
C7_KeysAreColumns ==
  type \in ReportTypes =>
    \A i \in 1..Len(report.data) :
      DOMAIN report.data[i].values \subseteq {report.columns[j] : j \in 1..Len(report.columns)}

\* a row of a report with two keys in its values mapping
C7_Witness ==
  /\ type \in ReportTypes
  /\ \E i \in 1..Len(report.data) : Cardinality(DOMAIN report.data[i].values) = 2

\* C8: whatever the report kind, grandTotal is the sum of the totals of the
\* rows of data.
C8_GrandTotal ==
  type \in ReportTypes =>
    report.grandTotal = SumSeq([i \in 1..Len(report.data) |-> report.data[i].total])

\* a NET_AMOUNT report of two rows with different totals
C8_Witness ==
  /\ type = NET_AMOUNT
  /\ Len(report.data) = 2
  /\ report.data[1].total > 0 /\ report.data[2].total > report.data[1].total
  /\ report.grandTotal = report.data[1].total + report.data[2].total

KeyOf(row) == IF type = PRODUCT_LIST THEN row.itemId ELSE row.district

\* the position of the first passing row of a key
FirstSeen(key) ==
  CHOOSE i \in PassingRows :
    /\ KeyOf(rows[i]) = key
    /\ \A j \in PassingRows : KeyOf(rows[j]) = key => i <= j

\* C10, as claimed: the rows of data ascend by rowLabel under the comparison of
\* code units, rows of equal labels in the order their keys were first seen.
C10_CodeUnitOrder ==
  type \in ReportTypes =>
    \A i \in 1..(Len(report.data) - 1) :
      /\ CompareCodeUnits(report.data[i].rowLabel, report.data[i + 1].rowLabel) <= 0
      /\ CompareCodeUnits(report.data[i].rowLabel, report.data[i + 1].rowLabel) = 0
           => FirstSeen(report.data[i].rowKey) < FirstSeen(report.data[i + 1].rowKey)

\* C10, amended: the rows of data ascend by rowLabel under localeCompare (the
\* letters decide before their case does, lower case before upper case), rows
\* whose labels compare equal in the order their keys were first seen.
C10_LocaleOrder ==
  type \in ReportTypes =>
    \A i \in 1..(Len(report.data) - 1) :
      /\ localeCompare(report.data[i].rowLabel, report.data[i + 1].rowLabel) <= 0
      /\ localeCompare(report.data[i].rowLabel, report.data[i + 1].rowLabel) = 0
           => FirstSeen(report.data[i].rowKey) < FirstSeen(report.data[i + 1].rowKey)

\* three products: the two of label "a" come in the order of their first rows
\* and before the product of label "B", whose row is first in the input
C10_Witness ==
  /\ type = PRODUCT_LIST
  /\ Len(rows) = 3 /\ PassingRows = {1, 2, 3}
  /\ rows[1].itemId = "P1" /\ rows[1].itemDesc = "B"
  /\ rows[2].itemId = "P3" /\ rows[2].itemDesc = "a"
  /\ rows[3].itemId = "P2" /\ rows[3].itemDesc = "a"
  /\ Len(report.data) = 3
  /\ report.data[1].rowKey = "P3" /\ report.data[2].rowKey = "P2"
  /\ report.data[3].rowKey = "P1"

\* the keys generateReport groups the passing rows under
PassingKeys == {KeyOf(rows[j]) : j \in PassingRows}

\* C11: whatever the report kind, data holds exactly one row for every key
\* (itemId for PRODUCT_LIST, district otherwise) of the passing rows: no key is
\* missing, none comes twice, no other key appears, the empty string is a key
\* like any other, and in a NET_AMOUNT report a district every line of which
\* belongs to a document first seen in an earlier row has its row too, with
\* total 0 and no values.
C11_OneRowPerKey ==
  type \in ReportTypes =>
    /\ {report.data[i].rowKey : i \in 1..Len(report.data)} = PassingKeys
    /\ Len(report.data) = Cardinality(PassingKeys)
    /\ "" \in PassingKeys => \E i \in 1..Len(report.data) : report.data[i].rowKey = ""
    /\ type = NET_AMOUNT =>
         \A d \in PassingKeys :
           (\A j \in PassingRows : rows[j].district = d => ~ FirstLineOfDoc(j)) =>
             \E i \in 1..Len(report.data) :
               /\ report.data[i].rowKey = d
               /\ report.data[i].total = 0
               /\ DOMAIN report.data[i].values = {}

\* a NET_AMOUNT report of three passing rows: the documents are counted in
\* Lima, the district "" has only a later line of document 1 and still has its
\* row, with total 0 and no values, and the two lines of Lima make one row
C11_Witness ==
  /\ type = NET_AMOUNT
  /\ Len(rows) = 3 /\ PassingRows = {1, 2, 3}
  /\ rows[1].district = "Lima" /\ rows[2].district = "" /\ rows[3].district = "Lima"
  /\ rows[1].docId = "1" /\ rows[2].docId = "1" /\ rows[3].docId = "2"
  /\ Len(report.data) = 2
  /\ \E i \in 1..2 :
       /\ report.data[i].rowKey = "" /\ report.data[i].total = 0
       /\ DOMAIN report.data[i].values = {}

\* C12: when rows is empty, and likewise when no row passes the filter, the
\* report of every kind has no columns, no data and grandTotal 0.
C12_EmptyReport ==
  (type \in ReportTypes /\ PassingRows = {}) =>
    /\ report.columns = <<>>
    /\ report.data = <<>>
    /\ report.grandTotal = 0

\* a report has been made of no rows at all
C12_Witness ==
  /\ type \in ReportTypes
  /\ rows = <<>>
  /\ report.columns = <<>> /\ report.data = <<>> /\ report.grandTotal = 0

\* q is s with some of its elements left out
IsSubsequence(q, s) ==
  \E f \in [1..Len(q) -> 1..Len(s)] :
    /\ \A j \in 1..Len(q) : q[j] = s[f[j]]
    /\ \A j \in 1..(Len(q) - 1) : f[j] < f[j + 1]

\* C13: every call of filterRows returns its input with some rows left out:
\* the kept rows are rows of the input, each taken from its own position and
\* in the order of the input, and the call leaves the input as it was.
C13_FilterSubsequence ==
  [][IsSubsequence(filtered', rows) /\ rows' = rows]_vars

\* two different rows are kept around a row that is dropped, in their order
C13_Witness ==
  /\ type \in ReportTypes
  /\ Len(rows) = 3 /\ PassingRows = {1, 3}
  /\ rows[1] # rows[3]
  /\ filtered = <<rows[1], rows[3]>>

\* C14: filterRows applied to the rows it returned returns those same rows.
C14_FilterIdempotent ==
  "filterRows" \in called => refiltered = filtered

\* filterRows has dropped a row of three and, applied to the two rows it kept,
\* has returned them
C14_Witness ==
  /\ "filterRows" \in called
  /\ Len(rows) = 3 /\ Len(filtered) = 2
  /\ refiltered = filtered

ScenarioA == Row("1", "Abierto", "MAYORISTAS B", "Lima", "Juan", 118, "P1", "Arroz", 2)

ScenarioB == Row("1", "Abierto", "MAYORISTAS B", "Lima", "Juan", 50, "P1", "Arroz", 1)

ScenarioBOtherItem == Row("1", "Abierto", "MAYORISTAS B", "Lima", "Juan", 50, "P2", "Azucar", 1)

ScenarioC == Row("2", "Abierto", "MAYORISTAS A", "Lima", "Ana", 200, "P1", "Arroz", 1)

\* a row of the report with the single cell of Juan
JuanRow(key, label, x) ==
  [rowKey |-> key, rowLabel |-> label, total |-> x, values |-> [k \in {"Juan"} |-> x]]

\* C16: for the records A, B, C of the scenario, in this order, the columns are
\* ["Juan"]; the NET_AMOUNT report is the single row Lima with the cell of Juan
\* and the total both 118 / 1.18 (5900 fifty-ninths: record A only); the
\* ORDER_COUNT report is the single row Lima with cell and total 1; the
\* PRODUCT_LIST report is one row of quantity 3 when A and B have the same
\* itemId, and two rows of quantities 2 and 1 when they have not.
C16_Scenario ==
  (type \in ReportTypes /\ rows \in {<<ScenarioA, ScenarioB, ScenarioC>>,
                                      <<ScenarioA, ScenarioBOtherItem, ScenarioC>>}) =>
    /\ report.columns = <<"Juan">>
    /\ type = NET_AMOUNT =>
         /\ report.data = <<JuanRow("Lima", "Lima", 50 * 118)>>
         /\ report.grandTotal = 50 * 118
    /\ type = ORDER_COUNT =>
         /\ report.data = <<JuanRow("Lima", "Lima", 1)>>
         /\ report.grandTotal = 1
    /\ (type = PRODUCT_LIST /\ rows[2] = ScenarioB) =>
         /\ report.data = <<JuanRow("P1", "Arroz", 3)>>
         /\ report.grandTotal = 3
    /\ (type = PRODUCT_LIST /\ rows[2] = ScenarioBOtherItem) =>
         /\ report.data = <<JuanRow("P1", "Arroz", 2), JuanRow("P2", "Azucar", 1)>>
         /\ report.grandTotal = 3

\* the NET_AMOUNT report of the records A, B, C has been made
C16_Witness ==
  /\ type = NET_AMOUNT
  /\ rows = <<ScenarioA, ScenarioB, ScenarioC>>
  /\ report.grandTotal = 50 * 118

\* the header k is some alias of the field f, the case and the spaces around
\* it aside
HeaderMatches(k, f) ==
  \E a \in 1..Len(FieldAliases[f]) : trim(toLowerCase(k)) = toLowerCase(FieldAliases[f][a])

StringFields == {"docId", "status", "groupName", "district", "salesRep", "itemId",
                 "itemDesc", "clientName", "destination"}

\* C17: processRawData returns one row for every record, in the order of the
\* records (a string field found under a single header holds the text of that
\* record's cell), and a field none of whose aliases is a header of the record
\* holds its default: "Sin Condado", "Desconocido", "Cliente Desconocido", 0
\* for totalAmount, 1 for quantity, and the empty string for the other fields.
C17_OneRowPerRecordWithDefaults ==
  "processRawData" \in called =>
    /\ Len(processed) = Len(raw)
    /\ \A i \in 1..Len(raw) :
         LET absent(f) == \A j \in 1..Len(raw[i]) : ~ HeaderMatches(raw[i][j].key, f)
         IN  /\ absent("district") => processed[i].district = "Sin Condado"
             /\ absent("salesRep") => processed[i].salesRep = "Desconocido"
             /\ absent("clientName") => processed[i].clientName = "Cliente Desconocido"
             /\ absent("totalAmount") => processed[i].totalAmount = [nan |-> FALSE, value |-> 0]
             /\ absent("quantity") => processed[i].quantity = [nan |-> FALSE, value |-> 1]
             /\ \A f \in {"docId", "status", "groupName", "itemId", "itemDesc", "destination"} :
                  absent(f) => processed[i][f] = ""
             /\ \A f \in StringFields :
                  \A j \in 1..Len(raw[i]) :
                    (/\ HeaderMatches(raw[i][j].key, f)
                     /\ raw[i][j].val.kind = "string"
                     /\ \A l \in 1..Len(raw[i]) : l # j => ~ HeaderMatches(raw[i][l].key, f))
                    => processed[i][f] = raw[i][j].val.str

\* three records have been processed: the first has no header at all, the
\* second names the sales rep only, the third has an unknown header only
C17_Witness ==
  /\ "processRawData" \in called
  /\ Len(raw) = 3 /\ Len(processed) = 3
  /\ raw[1] = <<>>
  /\ \E j \in 1..Len(raw[2]) : raw[2][j].key = "Vendedor"
  /\ Len(raw[3]) = 1 /\ raw[3][1].key = "Otro"
  /\ processed[1].district = "Sin Condado" /\ processed[1].salesRep = "Desconocido"
  /\ processed[2].salesRep = "Ana" /\ processed[2].district = "Sin Condado"
  /\ processed[3].clientName = "Cliente Desconocido" /\ processed[3].docId = ""

\* the position in the alias list of f of the alias the header k is
AliasRank(k, f) ==
  CHOOSE a \in 1..Len(FieldAliases[f]) : trim(toLowerCase(k)) = toLowerCase(FieldAliases[f][a])

\* C18: when headers of a record are aliases of a field, the field holds the
\* value under the header whose alias comes first in the alias list of the
\* field, whatever the order of the headers in the record.
C18_EarliestAliasWins ==
  "processRawData" \in called =>
    \A i \in 1..Len(raw) :
      \A f \in DOMAIN FieldAliases :
        \A j \in 1..Len(raw[i]) :
          (/\ HeaderMatches(raw[i][j].key, f)
           /\ \A l \in 1..Len(raw[i]) :
                HeaderMatches(raw[i][l].key, f) =>
                  AliasRank(raw[i][j].key, f) <= AliasRank(raw[i][l].key, f))
          => processed[i][f] = (IF f \in StringFields THEN String(raw[i][j].val)
                                ELSE Number(raw[i][j].val))

\* C19: the totalAmount and the quantity of every row processRawData returns
\* are numbers, never NaN, whatever the cells hold.
C19_NumericFieldsAreNumbers ==
  "processRawData" \in called =>
    \A i \in 1..Len(processed) :
      /\ processed[i].totalAmount.nan = FALSE
      /\ processed[i].quantity.nan = FALSE

\* C20: in the sheet of exportReportToExcel the row of every row of the report
\* holds one cell for every column of the report, in the order of the columns,
\* 0 where the row has no value for the rep; the row is [rowKey, rowLabel,
\* total, cells] for PRODUCT_LIST and [rowLabel, cells, total] for the other
\* kinds; every cell stands under the name of its rep in the second header
\* row; the second header row, the data rows and the footer row have the same
\* length.
C20_ExportDataRows ==
  "exportReportToExcel" \in called =>
    LET r == exported.report
        w == exported.wsData
        n == Len(r.columns)
        first == IF exported.type = PRODUCT_LIST THEN 3 ELSE 1
    IN  /\ Len(w) = Len(r.data) + 3
        /\ \A i \in 2..Len(w) : Len(w[i]) = Len(w[2])
        /\ \A j \in 1..n : w[2][first + j] = r.columns[j]
        /\ \A i \in 1..Len(r.data) :
             /\ Len(w[i + 2]) = n + (IF exported.type = PRODUCT_LIST THEN 3 ELSE 2)
             /\ \A j \in 1..n : w[i + 2][first + j] = CellAt(r.data[i], r.columns[j])
             /\ exported.type = PRODUCT_LIST =>
                  /\ w[i + 2][1] = r.data[i].rowKey
                  /\ w[i + 2][2] = r.data[i].rowLabel
                  /\ w[i + 2][3] = r.data[i].total
             /\ exported.type # PRODUCT_LIST =>
                  /\ w[i + 2][1] = r.data[i].rowLabel
                  /\ w[i + 2][n + 2] = r.data[i].total

\* an exported report of two columns and two rows, one row having no value
\* for the second column: its cell there is 0
C20_Witness ==
  /\ "exportReportToExcel" \in called
  /\ Len(exported.report.columns) = 2 /\ Len(exported.report.data) = 2
  /\ \E i \in 1..2 :
       /\ exported.report.columns[2] \notin DOMAIN exported.report.data[i].values
       /\ exported.report.columns[1] \in DOMAIN exported.report.data[i].values
       /\ exported.wsData[i + 2][IF exported.type = PRODUCT_LIST THEN 5 ELSE 3] = 0
       /\ Len(exported.wsData[i + 2]) = Len(exported.wsData[2])

\* C21: the last row of the sheet of exportReportToExcel holds, for every
\* column of the report, the sum over the rows of report.data of the value of
\* that rep (0 where a row has none), and report.grandTotal in the total
\* column: ["TOTALES", "", grandTotal, sums] for PRODUCT_LIST and
\* ["TOTALES", sums, grandTotal] for ORDER_COUNT and NET_AMOUNT.
C21_ExportFooter ==
  "exportReportToExcel" \in called =>
    LET r == exported.report
        n == Len(r.columns)
        footer == exported.wsData[Len(exported.wsData)]
        sums == [j \in 1..n |->
                   SumSeq([i \in 1..Len(r.data) |-> CellAt(r.data[i], r.columns[j])])]
    IN  IF exported.type = PRODUCT_LIST
        THEN footer = <<"TOTALES", "", r.grandTotal>> \o sums
        ELSE footer = <<"TOTALES">> \o sums \o <<r.grandTotal>>

\* an exported report of two rows and two columns in which a column sum adds
\* the values of two rows, another column has a row without a value, and the
\* sums of the columns differ from the grand total
C21_Witness ==
  /\ "exportReportToExcel" \in called
  /\ Len(exported.report.data) = 2 /\ Len(exported.report.columns) = 2
  /\ \E j, k \in 1..2 :
       LET r == exported.report
           first == IF exported.type = PRODUCT_LIST THEN 3 ELSE 1
           footer == exported.wsData[Len(exported.wsData)]
       IN  /\ j # k
           /\ \A i \in 1..2 : r.columns[j] \in DOMAIN r.data[i].values
           /\ \E i \in 1..2 : r.columns[k] \notin DOMAIN r.data[i].values
           /\ footer[first + j] = r.data[1].values[r.columns[j]] + r.data[2].values[r.columns[j]]
           /\ footer[first + j] # r.grandTotal
           /\ footer[IF exported.type = PRODUCT_LIST THEN 3 ELSE 4] = r.grandTotal

\* the merges of the exported sheet that begin at the title cell (row 0,
\* column 0) and those that begin elsewhere
TitleMerges == {i \in 1..Len(exported.merges) :
                  exported.merges[i].s = [r |-> 0, c |-> 0]}

GroupMerges == (1..Len(exported.merges)) \ TitleMerges

\* the zero-based columns of the sheet that hold the names of the reps in the
\* second header row
RepColumns ==
  LET first == IF exported.type = PRODUCT_LIST THEN 3 ELSE 1
  IN  {c \in 0..(Len(exported.wsData[2]) - 1) :
         \E j \in 1..Len(exported.report.columns) :
           c = first + j - 1 /\ exported.wsData[2][c + 1] = exported.report.columns[j]}

\* a merge of the first header row covering exactly the columns of the reps
CoversReps(m) ==
  /\ m.s.r = 0 /\ m.e.r = 0
  /\ {c \in 0..(Len(exported.wsData[2]) - 1) : m.s.c <= c /\ c <= m.e.c} = RepColumns

\* C22 as stated: for every kind and every report exportReportToExcel declares
\* a merge for the title cell span and a merge for the rep-group header, the
\* latter covering exactly the columns that hold the names of the reps.
C22_MergesDeclared ==
  "exportReportToExcel" \in called =>
    /\ TitleMerges # {}
    /\ \E i \in GroupMerges : CoversReps(exported.merges[i])

\* C22 as the code has it: the title is merged over its two columns for
\* PRODUCT_LIST only (the title of the other kinds is the single cell of
\* column 0 and no merge is declared for it); the rep-group header is merged
\* when the report has at least one rep, over exactly the columns that hold
\* the names of the reps (3..3+n-1 for PRODUCT_LIST, 1..n for the other
\* kinds); no other merge is declared.
C22_MergesPerLayout ==
  "exportReportToExcel" \in called =>
    LET n == Len(exported.report.columns)
    IN  /\ IF exported.type = PRODUCT_LIST
           THEN /\ Cardinality(TitleMerges) = 1
                /\ \A i \in TitleMerges : exported.merges[i].e = [r |-> 0, c |-> 1]
           ELSE TitleMerges = {}
        /\ Cardinality(GroupMerges) = (IF n > 0 THEN 1 ELSE 0)
        /\ \A i \in GroupMerges :
             /\ CoversReps(exported.merges[i])
             /\ exported.merges[i].s.c = (IF exported.type = PRODUCT_LIST THEN 3 ELSE 1)
             /\ exported.merges[i].e.c = exported.merges[i].s.c + n - 1

\* an exported product list of two reps: the title merge and the merge of
\* the rep-group header over columns 3 and 4
C22_Witness ==
  /\ "exportReportToExcel" \in called
  /\ exported.type = PRODUCT_LIST
  /\ Len(exported.report.columns) = 2
  /\ Len(exported.merges) = 2
  /\ exported.merges[2].s.c = 3 /\ exported.merges[2].e.c = 4
  /\ RepColumns = {3, 4}

\* C29: in every row of an ORDER_COUNT report the total is at least the
\* largest cell of the row and at most the sum of the cells over the columns
\* of the report, and equals that sum exactly when no document of the
\* passing rows of the district appears under two different reps.
C29_OrderCountTotalBounds ==
  type = ORDER_COUNT =>
    \A i \in 1..Len(report.data) :
      LET e == report.data[i]
          cells == [j \in 1..Len(report.columns) |-> CellAt(e, report.columns[j])]
          shared == \E p, q \in RepDocsOfDistrict(e.rowKey) : p[1] # q[1] /\ p[2] = q[2]
      IN  /\ \A j \in 1..Len(cells) : cells[j] <= e.total
          /\ e.total <= SumSeq(cells)
          /\ (e.total = SumSeq(cells)) <=> ~shared

\* C30: in a PRODUCT_LIST report the passing rows of one itemId make a single
\* row of the report, whatever their descriptions; its rowLabel is the
\* itemDesc of the first passing row of that itemId in input order, and no
\* row of the report carries a later description of the itemId instead.
C30_FirstDescriptionLabels ==
  type = PRODUCT_LIST =>
    \A k \in {rows[j].itemId : j \in PassingRows} :
      LET of == {i \in 1..Len(report.data) : report.data[i].rowKey = k}
          first == CHOOSE j \in PassingRows :
                     /\ rows[j].itemId = k
                     /\ \A h \in PassingRows : rows[h].itemId = k => j <= h
      IN  /\ Cardinality(of) = 1
          /\ \A i \in of : report.data[i].rowLabel = rows[first].itemDesc

\* a product list of three passing rows of one itemId under three
\* descriptions: one row, labelled with the first description, holding the
\* quantities of the three
C30_Witness ==
  /\ type = PRODUCT_LIST
  /\ Len(rows) = 3 /\ PassingRows = {1, 2, 3}
  /\ \A j \in 1..3 : rows[j].itemId = "P1"
  /\ rows[1].itemDesc = "b" /\ rows[2].itemDesc = "a" /\ rows[3].itemDesc = "B"
  /\ Len(report.data) = 1
  /\ report.data[1].rowLabel = "b"
  /\ report.data[1].total = 6

\* C23: the sheet of exportClientSearchToExcel has one header row of six
\* columns followed by exactly one row for every input row, in the order of
\* the input, holding [itemId, itemDesc, quantity, district, destination,
\* clientName] of that row; no row is dropped, filtered, reordered or
\* aggregated: the rows that the filter of generateReport rejects are there
\* too.
C23_ClientExportRows ==
  "exportClientSearchToExcel" \in called =>
    LET w == clientExported.wsData
    IN  /\ clientExported.rows = rows
        /\ Len(w) = Len(rows) + 1
        /\ Len(w[1]) = 6
        /\ \A i \in 1..Len(rows) :
             w[i + 1] = <<rows[i].itemId, rows[i].itemDesc, rows[i].quantity,
                          rows[i].district, rows[i].destination, rows[i].clientName>>

\* an export of three rows of which the first and the last are equal and
\* pass the filter and the second is closed: four sheet rows, the closed row
\* and the repeated row included
C23_Witness ==
  /\ "exportClientSearchToExcel" \in called
  /\ Len(rows) = 3
  /\ Passes(rows[1]) /\ ~ Passes(rows[2]) /\ rows[3] = rows[1]
  /\ rows[2].status = "Cerrado" /\ rows[2].itemId # rows[1].itemId
  /\ Len(clientExported.wsData) = 4
  /\ clientExported.wsData[3][1] = rows[2].itemId
  /\ clientExported.wsData[4] = clientExported.wsData[2]

\* C24: the error state shown after an upload whose file decodes but yields
\* no row differs from the error state shown after an upload whose file
\* cannot be read or decoded.
C24_EmptyShownDistinctly ==
  \A p, q \in shown :
    p.cause = "empty" /\ q.cause = "rejected" =>
      <<p.error, p.loading>> # <<q.error, q.loading>>

\* the upload of the file fails: parseExcel rejects, or resolves with no row
Fails(file) == ~ file.readable \/ ~ file.decodes \/ Len(file.records) = 0

\* C25: when the upload of a file fails, handleFileUpload leaves rawData as it
\* was, null, so that App has no report, and sets error to a message; rawData
\* turns from null to rows only when an upload settles whose file resolved
\* with at least one row, and then holds one row for every record of it.
C25_FailedUploadRetainsNothing ==
  [][/\ (event'.name = "settled" /\ Fails(event'.file)) =>
          /\ rawData' = rawData
          /\ rawData'.null
          /\ reportMemo(rawData', activeTab') = Null
          /\ ~ error'.null
     /\ (rawData.null /\ ~ rawData'.null) =>
          /\ event'.name = "settled"
          /\ ~ Fails(event'.file)
          /\ Len(rawData'.value) = Len(event'.file.records)
          /\ Len(rawData'.value) >= 1]_vars

\* an upload of a workbook without rows has just failed, after an upload of
\* an undecodable file: no data, no report, a message
C25_Witness ==
  /\ event.name = "settled"
  /\ event.file.readable /\ event.file.decodes /\ event.file.records = <<>>
  /\ \E p \in shown : p.cause = "rejected"
  /\ rawData.null
  /\ ~ error.null
  /\ reportMemo(rawData, activeTab) = Null

\* C26: every call of handleFileUpload sets loading and clears error as it
\* calls parseExcel; when the promise settles, resolved or rejected, with
\* rows or without, loading is false afterwards; loading is never true when
\* no promise is unsettled.
C26_LoadingLifecycle ==
  [][/\ Len(pending') > Len(pending) =>
          /\ event'.name \in {"handleDrop", "handleChange"}
          /\ pending' = Append(pending, event'.file)
          /\ loading' /\ error'.null
     /\ event'.name = "settled" => ~ loading' /\ Len(pending') < Len(pending)
     /\ pending' = <<>> => ~ loading']_vars

\* an upload has just succeeded after one upload failed for each cause, and
\* loading is false
C26_Witness ==
  /\ event.name = "settled" /\ ~ Fails(event.file)
  /\ ~ rawData.null
  /\ {p.cause : p \in shown} = {"rejected", "empty"}
  /\ \A p \in shown : ~ p.loading
  /\ ~ loading

\* C27: while loading is true no drop, change or click starts an upload (a
\* click opens no file dialog); at most one promise of parseExcel is
\* unsettled; and the rows an upload delivers are the rows of the records of
\* its one file.
C27_OneUploadAtATime ==
  [][/\ loading => Len(pending') <= Len(pending)
     /\ (loading /\ event'.name \in {"handleDrop", "handleChange"}) =>
          UNCHANGED <<pending, loading, error, rawData>>
     /\ (loading /\ event'.name = "onClick") =>
          ~ event'.opened /\ UNCHANGED <<pending, loading, error, rawData>>
     /\ Len(pending') <= 1
     /\ (event'.name = "settled" /\ ~ rawData'.null) =>
          /\ Len(rawData'.value) = Len(event'.file.records)
          /\ \A i \in 1..Len(rawData'.value) :
               rawData'.value[i] = processRow(event'.file.records[i])]_vars

\* a file was dropped while the upload of another file was loading: the one
\* promise unsettled is that of the other file
C27_Witness ==
  /\ event.name = "handleDrop"
  /\ loading
  /\ Len(pending) = 1
  /\ pending[1] # event.file
  /\ ~ Fails(event.file) /\ Fails(pending[1])

\* C28: a click on a header of PivotTable sets the sort state to the key
\* clicked, descending if the state before was that key ascending, ascending
\* otherwise (no state before, another key, or that key descending); the rows
\* displayed afterwards are the rows of report.data in some order, and the
\* click leaves report (its data, in their order, its columns and its
\* grandTotal) and the displayed totals of the columns and grand total as
\* they were.
C28_SortStateAndTotals ==
  [][event'.name = "handleSort" =>
       /\ sortConfig' =
            Some([key |-> event'.key,
                  direction |-> IF sortConfig = Some([key |-> event'.key, direction |-> "asc"])
                                THEN "desc" ELSE "asc"])
       /\ report' = report
       /\ displayed'.colTotals = displayed.colTotals
       /\ displayed'.grandTotal = displayed.grandTotal
       /\ displayed'.grandTotal = report.grandTotal
       /\ Len(displayed'.rows) = Len(report.data)
       /\ {displayed'.rows[i] : i \in 1..Len(displayed'.rows)}
            = {report.data[i] : i \in 1..Len(report.data)}]_vars

\* the header of the total was clicked while the sort was by total ascending:
\* the sort is by total descending, the two rows are displayed in the reverse
\* of their order in report.data, and the totals are those of report.data
C28_Witness ==
  /\ event.name = "handleSort" /\ event.key = "total"
  /\ sortConfig = Some([key |-> "total", direction |-> "desc"])
  /\ Len(report.data) = 2
  /\ report.data[1].total < report.data[2].total
  /\ displayed.rows = <<report.data[2], report.data[1]>>
  /\ displayed.grandTotal = report.data[1].total + report.data[2].total
  /\ Len(displayed.colTotals) = 2

====
